---- MODULE Spec2Model ----
(***************************************************************************)
(* Financial Statement Analyzer (src/analyzer.py).                         *)
(*                                                                         *)
(* The module models the schema validator (validate_columns), the ratio    *)
(* engine (compute_ratios) and the command-line driver (main).             *)
(*                                                                         *)
(* Numbers.  A cell or a computed value is a record [k, n, d, e]:          *)
(*   k = "fin"   the finite number  n / (d + e*eps),  eps = 1/EpsInv       *)
(*   k = "inf" / "ninf" / "nan"     the IEEE non-finite floats             *)
(*   k = "str"   a non-numeric cell (a Python str)                         *)
(*   k = "err"   the operation raised (TypeError)                          *)
(* eps is kept symbolic: n/(d + e*eps) is stored with gcd(n,d,e) = 1 and   *)
(* e > 0 (or e = 0 and d > 0).  For cells of magnitude below EpsInv two    *)
(* such numbers are equal exactly when their normal forms are, and         *)
(* d + e*eps is never zero for an integer d.  Floating-point rounding is   *)
(* not modelled.                                                           *)
(***************************************************************************)
EXTENDS Integers, Sequences, FiniteSets, TLC

\* ------------------------------------------------------------- bounds
MaxRows == 2        \* rows of an input table
MaxPeriod == 2      \* period labels are 1..MaxPeriod

\* eps = 1e-9 = 1 / EpsInv
EpsInv == 1000000000

\* --------------------------------------------------------- the schema
REQUIRED_COLUMNS ==
    << "period", "revenue", "cogs", "operating_income", "net_income",
       "total_assets", "total_equity", "total_liabilities", "current_assets",
       "current_liabilities", "cash", "marketable_securities",
       "accounts_receivable", "inventory", "interest_expense" >>

\* A column the schema does not ask for.  It carries the name of the engine's
\* intermediate column, so that the engine's assignment meets an existing one.
ExtraColumn == "gross_profit"

ratio_cols ==
    << "period", "gross_margin", "operating_margin", "net_margin",
       "current_ratio", "quick_ratio", "debt_to_equity", "asset_turnover",
       "roa", "roe", "interest_coverage", "revenue_growth_yoy",
       "net_income_growth_yoy" >>

Range(s) == { s[i] : i \in 1..Len(s) }

\* ------------------------------------------------------------ numbers
Abs(x) == IF x < 0 THEN -x ELSE x

RECURSIVE Gcd(_, _)
Gcd(a, b) == IF b = 0 THEN a ELSE Gcd(b, a % b)

Val(kind, n, d, e) == [k |-> kind, n |-> n, d |-> d, e |-> e]

NaN == Val("nan", 0, 1, 0)
PosInf == Val("inf", 0, 1, 0)
NegInf == Val("ninf", 0, 1, 0)
Str == Val("str", 0, 1, 0)
Err == Val("err", 0, 1, 0)

\* The normal form of n / (d + e*eps); (d, e) is not (0, 0).
Norm(n, d, e) ==
    IF n = 0 THEN Val("fin", 0, 1, 0)
    ELSE LET s == IF e > 0 \/ (e = 0 /\ d > 0) THEN 1 ELSE -1
             g == Gcd(Gcd(Abs(n), Abs(d)), Abs(e))
         IN  Val("fin", (s * n) \div g, (s * d) \div g, (s * e) \div g)

Num(v) == Val("fin", v, 1, 0)

IsNumber(a) == a.k \in {"fin", "inf", "ninf", "nan"}

\* a + b on two cells (finite operands are plain fractions, e = 0).  Python
\* adds two str (concatenation); a str and a number raise TypeError.
Add(a, b) ==
    IF a.k = "err" \/ b.k = "err" THEN Err
    ELSE IF a.k = "str" /\ b.k = "str" THEN Str
    ELSE IF a.k = "str" \/ b.k = "str" THEN Err
    ELSE IF a.k = "nan" \/ b.k = "nan" THEN NaN
    ELSE IF a.k = "inf" THEN (IF b.k = "ninf" THEN NaN ELSE PosInf)
    ELSE IF a.k = "ninf" THEN (IF b.k = "inf" THEN NaN ELSE NegInf)
    ELSE IF b.k \in {"inf", "ninf"} THEN b
    ELSE Norm(a.n * b.d + b.n * a.d, a.d * b.d, 0)

\* a - b (finite operands are plain fractions, e = 0); a str operand raises
\* TypeError.
Sub(a, b) ==
    IF ~IsNumber(a) \/ ~IsNumber(b) THEN Err
    ELSE IF a.k = "nan" \/ b.k = "nan" THEN NaN
    ELSE IF a.k = "inf" THEN (IF b.k = "inf" THEN NaN ELSE PosInf)
    ELSE IF a.k = "ninf" THEN (IF b.k = "ninf" THEN NaN ELSE NegInf)
    ELSE IF b.k = "inf" THEN NegInf
    ELSE IF b.k = "ninf" THEN PosInf
    ELSE Norm(a.n * b.d - b.n * a.d, a.d * b.d, 0)

Neg(a) == IF a.k = "inf" THEN NegInf ELSE IF a.k = "ninf" THEN PosInf ELSE a

\* a / b as numpy divides floats: x/0 is +-inf, 0/0 is nan, nothing raises
\* on numbers; a str operand raises TypeError.
Div(a, b) ==
    IF ~IsNumber(a) \/ ~IsNumber(b) THEN Err
    ELSE IF a.k = "nan" \/ b.k = "nan" THEN NaN
    ELSE IF b.k # "fin" THEN (IF a.k = "fin" THEN Num(0) ELSE NaN)
    ELSE IF a.k # "fin" THEN (IF b.n < 0 THEN Neg(a) ELSE a)
    ELSE IF b.n = 0
         THEN (IF a.n > 0 THEN PosInf ELSE IF a.n < 0 THEN NegInf ELSE NaN)
    ELSE Norm(a.n * b.d, a.d * b.n, 0)

DivEps_no_eps(a, b) == Div(a, b)

\* a / (b + eps), the stabilised division of every ratio line: b + eps is
\* not zero for a cell b, and has the sign of b (positive for b = 0).
DivEps(a, b) ==
    IF ~IsNumber(a) \/ ~IsNumber(b) THEN Err
    ELSE IF a.k = "nan" \/ b.k = "nan" THEN NaN
    ELSE IF b.k # "fin" THEN (IF a.k = "fin" THEN Num(0) ELSE NaN)
    ELSE IF a.k # "fin" THEN (IF b.n < 0 THEN Neg(a) ELSE a)
    ELSE Norm(a.n * b.d, a.d * b.n, a.d * b.d)

\* ------------------------------------------------------------- tables
\* A DataFrame: its column names in order, and its rows in index order, each
\* row a function from the column names to cells.  (rows \o << >> is rows,
\* held as an evaluated tuple.)
Table(cols, rows) == [cols |-> cols, rows |-> rows \o << >>]

NRows(t) == Len(t.rows)

HasColumn(t, c) == c \in Range(t.cols)

\* out[c] = cells: an existing column is overwritten in place, a new one is
\* appended after the others.
SetColumn(t, c, cells) ==
    Table(IF HasColumn(t, c) THEN t.cols ELSE Append(t.cols, c),
          [i \in 1..NRows(t) |-> (c :> cells[i]) @@ t.rows[i]])

\* out[cols]: a new table of the named columns.
Select(t, cols) ==
    Table(cols, [i \in 1..NRows(t) |-> [x \in Range(cols) |-> t.rows[i][x]]])

\* --------------------------------------------------- the schema validator
validate_columns_first_only(t) ==
    LET missing == SelectSeq(REQUIRED_COLUMNS, LAMBDA c : ~HasColumn(t, c))
    IN  IF missing = << >> THEN missing ELSE << missing[1] >>

validate_columns(t) ==
    SelectSeq(REQUIRED_COLUMNS, LAMBDA c : ~HasColumn(t, c))

\* ------------------------------------------------------- the ratio engine
\* The columns compute_ratios assigns before it sorts, in the order of its
\* assignments (quick_assets is a local of the quick_ratio line).
RatioSteps ==
    << "gross_profit", "gross_margin", "operating_margin", "net_margin",
       "current_ratio", "quick_ratio", "debt_to_equity", "asset_turnover",
       "roa", "roe", "interest_coverage" >>

\* The cell one assignment computes for one row r of out.
Formula(c, r) ==
    CASE c = "gross_profit"      -> Sub(r["revenue"], r["cogs"])
      [] c = "gross_margin"      -> DivEps(r["gross_profit"], r["revenue"])
      [] c = "operating_margin"  -> DivEps(r["operating_income"], r["revenue"])
      [] c = "net_margin"        -> DivEps(r["net_income"], r["revenue"])
      [] c = "current_ratio"     -> DivEps(r["current_assets"], r["current_liabilities"])
      [] c = "quick_ratio"       ->
              DivEps(Add(Add(r["cash"], r["marketable_securities"]),
                         r["accounts_receivable"]),
                     r["current_liabilities"])
      [] c = "debt_to_equity"    -> DivEps(r["total_liabilities"], r["total_equity"])
      [] c = "asset_turnover"    -> DivEps(r["revenue"], r["total_assets"])
      [] c = "roa"               -> DivEps(r["net_income"], r["total_assets"])
      [] c = "roe"               -> DivEps(r["net_income"], r["total_equity"])
      [] c = "interest_coverage" -> DivEps(r["operating_income"], r["interest_expense"])

\* df.copy(): a new object holding the same table.  The heap is the sequence
\* of the live DataFrame objects, a reference is an index into it.
copy_alias(h, ref) == [heap |-> h, ref |-> ref]

copy(h, ref) == [heap |-> Append(h, h[ref]), ref |-> Len(h) + 1]

\* The assignments of lines 44-65 from step i on, on the object out of heap h.
\* An assignment whose right-hand side raises ends the call there.
RECURSIVE AssignFrom(_, _, _)
AssignFrom(h, out, i) ==
    IF i > Len(RatioSteps) THEN [heap |-> h, raised |-> FALSE]
    ELSE LET t == h[out]
             cells == [j \in 1..NRows(t) |-> Formula(RatioSteps[i], t.rows[j])] \o << >>
         IN  IF \E j \in 1..NRows(t) : cells[j].k = "err"
             THEN [heap |-> h, raised |-> TRUE]
             ELSE AssignFrom([h EXCEPT ![out] = SetColumn(t, RatioSteps[i], cells)],
                             out, i + 1)

\* The orders sort_values("period") may leave the rows in: position i of the
\* result holds row p[i].  The default kind, quicksort, promises an ascending
\* order and no order among equal keys.
SortOrders(t) ==
    { p \in Permutations(1..NRows(t)) :
        \A i, j \in 1..NRows(t) :
            i < j => t.rows[p[i]]["period"].n <= t.rows[p[j]]["period"].n }

\* The one order a stable sort leaves.
IsStable(t, p) ==
    \A i, j \in 1..NRows(t) :
        (i < j /\ t.rows[p[i]]["period"] = t.rows[p[j]]["period"]) => p[i] < p[j]

sort_values_unsorted(t, p) == t

sort_values_period_only(t, p) ==
    Table(t.cols,
          [i \in 1..NRows(t) |->
              [t.rows[i] EXCEPT !["period"] = t.rows[p[i]]["period"]]])

sort_values_dedup(t, p) ==
    LET keep == { i \in 1..NRows(t) :
                    \A j \in 1..(i - 1) :
                        t.rows[p[j]]["period"] # t.rows[p[i]]["period"] }
        idx == SelectSeq([i \in 1..NRows(t) |-> i], LAMBDA i : i \in keep)
    IN  Table(t.cols, [i \in 1..Len(idx) |-> t.rows[p[idx[i]]]])

\* out.sort_values("period").reset_index(drop=True), in the order p.
sort_values(t, p) == Table(t.cols, [i \in 1..NRows(t) |-> t.rows[p[i]]])

pct_change_over_current(t, c) ==
    [i \in 1..NRows(t) |->
        IF i = 1 THEN NaN
        ELSE Div(Sub(t.rows[i][c], t.rows[i - 1][c]), t.rows[i][c])] \o << >>

\* out[c].pct_change(): x[i] / x[i-1] - 1, and NaN for the first row.
pct_change(t, c) ==
    [i \in 1..NRows(t) |->
        IF i = 1 THEN NaN
        ELSE Sub(Div(t.rows[i][c], t.rows[i - 1][c]), Num(1))] \o << >>

compute_ratios_growth_first(h, df, p) ==
    LET c == copy(h, df)
        a == AssignFrom(c.heap, c.ref, 1)
    IN  IF a.raised THEN [heap |-> a.heap, ret |-> 0, raised |-> TRUE]
        ELSE LET g1 == SetColumn(a.heap[c.ref], "revenue_growth_yoy",
                                 pct_change(a.heap[c.ref], "revenue"))
                 g2 == SetColumn(g1, "net_income_growth_yoy",
                                 pct_change(g1, "net_income"))
                 sorted == sort_values(g2, p)
                 h2 == Append(Append(a.heap, sorted), Select(sorted, ratio_cols))
             IN  [heap |-> h2, ret |-> Len(h2), raised |-> FALSE]

\* compute_ratios(df) on heap h, the sort leaving the rows in order p.
\* Returns the heap it leaves, the reference it returns (0 when it raised)
\* and whether it raised.
compute_ratios(h, df, p) ==
    LET c == copy(h, df)
        a == AssignFrom(c.heap, c.ref, 1)
    IN  IF a.raised THEN [heap |-> a.heap, ret |-> 0, raised |-> TRUE]
        ELSE LET sorted == sort_values(a.heap[c.ref], p)
                 g1 == SetColumn(sorted, "revenue_growth_yoy",
                                 pct_change(sorted, "revenue"))
                 g2 == SetColumn(g1, "net_income_growth_yoy",
                                 pct_change(g1, "net_income"))
                 h2 == Append(Append(a.heap, g2), Select(g2, ratio_cols))
             IN  [heap |-> h2, ret |-> Len(h2), raised |-> FALSE]

\* -------------------------------------------------------------- inputs
\* The fourteen numeric cells of a row, as integers; Strs names the columns
\* whose cell is non-numeric text instead.
RowA ==
    [cells |-> [revenue |-> 100, cogs |-> 60, operating_income |-> 20,
                net_income |-> 10, total_assets |-> 200, total_equity |-> 100,
                total_liabilities |-> 100, current_assets |-> 50,
                current_liabilities |-> 25, cash |-> 10,
                marketable_securities |-> 5, accounts_receivable |-> 5,
                inventory |-> 10, interest_expense |-> 2],
     strs |-> {}]

\* The second row of the same company, its inventory cell not a number.
RowB ==
    [cells |-> [revenue |-> 150, cogs |-> 80, operating_income |-> 40,
                net_income |-> 25, total_assets |-> 220, total_equity |-> 120,
                total_liabilities |-> 100, current_assets |-> 60,
                current_liabilities |-> 30, cash |-> 15,
                marketable_securities |-> 5, accounts_receivable |-> 10,
                inventory |-> 12, interest_expense |-> 2],
     strs |-> {"inventory"}]

\* Every denominator zero, a negative numerator, no income.
RowZ ==
    [cells |-> [revenue |-> 0, cogs |-> 60, operating_income |-> -20,
                net_income |-> 0, total_assets |-> 0, total_equity |-> 0,
                total_liabilities |-> 100, current_assets |-> 50,
                current_liabilities |-> 0, cash |-> 10,
                marketable_securities |-> 5, accounts_receivable |-> 5,
                inventory |-> 0, interest_expense |-> 0],
     strs |-> {}]

\* RowA with a cogs cell that is not a number (such as "1,000").
RowS == [cells |-> RowA.cells, strs |-> {"cogs"}]

Templates == {RowA, RowB, RowZ, RowS}

FullHeader == REQUIRED_COLUMNS

WideHeader == Append(REQUIRED_COLUMNS, ExtraColumn)

\* The row of template T and period p under a header: the header's columns.
MakeRow(header, p, T) ==
    [c \in Range(header) |->
        IF c = "period" THEN Num(p)
        ELSE IF c = ExtraColumn \/ c \in T.strs THEN Str
        ELSE Num(T.cells[c])]

\* The cells are small against 1/eps, which keeps the normal forms exact.
Exact(r) == \A c \in DOMAIN r : Abs(r[c].n) < EpsInv /\ Abs(r[c].d) < EpsInv

RowsOf(header) ==
    { r \in { MakeRow(header, p, T) : p \in 1..MaxPeriod, T \in Templates } :
        Exact(r) }

TablesOf(header, n) ==
    { Table(header, rows) : rows \in UNION { [1..k -> RowsOf(header)] : k \in 0..n } }

Reverse(s) == [i \in 1..Len(s) |-> s[Len(s) + 1 - i]]

\* Headers of the validator's inputs: every set of schema columns, with or
\* without the extra column, in the schema's order and in the opposite one.
ValidatorHeaders ==
    LET ordered == { SelectSeq(WideHeader, LAMBDA c : c \in S) :
                        S \in SUBSET Range(WideHeader) }
    IN  ordered \cup { Reverse(s) : s \in ordered }

\* Headers of the CSV file of a command-line run.
MainHeaders ==
    { FullHeader, WideHeader,
      SelectSeq(FullHeader, LAMBDA c : c # "cogs"),
      SelectSeq(Reverse(WideHeader),
                LAMBDA c : c \notin {"period", "inventory", "net_income"}) }

\* ---------------------------------------------------------------- state
VARIABLES
    pc,            \* where the run, or the caller of a function, stands
    inputExists,   \* os.path.exists(args.input)
    outdirExists,  \* the output directory exists
    file,          \* the table the CSV file at args.input holds
    heap,          \* the live DataFrame objects
    df,            \* reference to the input table (0: none yet)
    ratios,        \* reference to the table compute_ratios returned (0: none)
    missing,       \* what validate_columns returned
    exitCode,      \* the process's exit status (-1: still running)
    raised,        \* compute_ratios ended in an exception
    stderr,        \* the lines printed to the error stream
    outputs,       \* the files written under outdir
    calls,         \* the functions main has called, in order
    prev           \* the engine's previous call: [has, raised, rows]

vars == << pc, inputExists, outdirExists, file, heap, df, ratios, missing,
           exitCode, raised, stderr, outputs, calls, prev >>

NoPrev == [has |-> FALSE, raised |-> FALSE, rows |-> << >>]

Blank ==
    /\ ratios = 0
    /\ missing = << >>
    /\ exitCode = -1
    /\ raised = FALSE
    /\ stderr = << >>
    /\ outputs = {}
    /\ calls = << >>
    /\ prev = NoPrev

\* ------------------------------------------------- the command-line run
Init ==
    /\ pc = "start"
    /\ inputExists \in BOOLEAN
    /\ outdirExists \in BOOLEAN
    /\ file \in UNION { TablesOf(h, IF inputExists THEN MaxRows ELSE 0) :
                          h \in MainHeaders }
    /\ heap = << >>
    /\ df = 0
    /\ Blank

CheckInput_makedirs_first ==
    /\ pc = "start"
    /\ outdirExists' = TRUE
    /\ calls' = Append(calls, "makedirs")
    /\ IF inputExists
       THEN /\ pc' = "read"
            /\ UNCHANGED << stderr, exitCode >>
       ELSE /\ stderr' = Append(stderr, << "ERROR: Input file not found" >>)
            /\ exitCode' = 1
            /\ pc' = "exit"
    /\ UNCHANGED << inputExists, file, heap, df, ratios, missing, raised,
                    outputs, prev >>

\* if not os.path.exists(args.input): print(...); sys.exit(1)
CheckInput ==
    /\ pc = "start"
    /\ IF inputExists
       THEN /\ pc' = "makedirs"
            /\ UNCHANGED << stderr, exitCode >>
       ELSE /\ stderr' = Append(stderr, << "ERROR: Input file not found" >>)
            /\ exitCode' = 1
            /\ pc' = "exit"
    /\ UNCHANGED << inputExists, outdirExists, file, heap, df, ratios, missing,
                    raised, outputs, calls, prev >>

\* os.makedirs(args.outdir, exist_ok=True)
MakeDirs ==
    /\ pc = "makedirs"
    /\ outdirExists' = TRUE
    /\ calls' = Append(calls, "makedirs")
    /\ pc' = "read"
    /\ UNCHANGED << inputExists, file, heap, df, ratios, missing, exitCode,
                    raised, stderr, outputs, prev >>

\* df = pd.read_csv(args.input)
ReadCsv ==
    /\ pc = "read"
    /\ heap' = Append(heap, file)
    /\ df' = Len(heap) + 1
    /\ calls' = Append(calls, "read_csv")
    /\ pc' = "validate"
    /\ UNCHANGED << inputExists, outdirExists, file, ratios, missing, exitCode,
                    raised, stderr, outputs, prev >>

Validate_exit_1 ==
    /\ pc = "validate"
    /\ missing' = validate_columns(heap[df])
    /\ calls' = Append(calls, "validate_columns")
    /\ IF missing' # << >>
       THEN /\ stderr' = Append(stderr,
                                << "ERROR: Missing required columns:" >> \o missing')
            /\ exitCode' = 1
            /\ pc' = "exit"
       ELSE /\ pc' = "compute"
            /\ UNCHANGED << stderr, exitCode >>
    /\ UNCHANGED << inputExists, outdirExists, file, heap, df, ratios, raised,
                    outputs, prev >>

\* missing = validate_columns(df); if missing: print(...); sys.exit(2)
Validate ==
    /\ pc = "validate"
    /\ missing' = validate_columns(heap[df])
    /\ calls' = Append(calls, "validate_columns")
    /\ IF missing' # << >>
       THEN /\ stderr' = Append(stderr,
                                << "ERROR: Missing required columns:" >> \o missing')
            /\ exitCode' = 2
            /\ pc' = "exit"
       ELSE /\ pc' = "compute"
            /\ UNCHANGED << stderr, exitCode >>
    /\ UNCHANGED << inputExists, outdirExists, file, heap, df, ratios, raised,
                    outputs, prev >>

\* ratios = compute_ratios(df).  The locals of the call die with it: the heap
\* keeps the caller's table and the returned one.  An exception of the engine
\* is caught nowhere: the interpreter prints the traceback and exits with 1.
ComputeRatios ==
    /\ pc = "compute"
    /\ calls' = Append(calls, "compute_ratios")
    /\ \E p \in SortOrders(heap[df]) :
       \E r \in { compute_ratios(heap, df, p) } :
          IF r.raised
          THEN /\ heap' = << r.heap[df] >>
               /\ raised' = TRUE
               /\ stderr' = Append(stderr, << "Traceback" >>)
               /\ exitCode' = 1
               /\ pc' = "exit"
               /\ UNCHANGED ratios
          ELSE /\ heap' = << r.heap[df], r.heap[r.ret] >>
               /\ ratios' = 2
               /\ pc' = "excel"
               /\ UNCHANGED << raised, stderr, exitCode >>
    /\ UNCHANGED << inputExists, outdirExists, file, df, missing, outputs, prev >>

\* export_excel(df, ratios, excel_path): the sheets "Raw Data" and "Ratios".
ExportExcel ==
    /\ pc = "excel"
    /\ outputs' = outputs \cup
          { [name |-> "financial_report.xlsx",
             sheets |-> << heap[df], heap[ratios] >>] }
    /\ calls' = Append(calls, "export_excel")
    /\ pc' = "margins"
    /\ UNCHANGED << inputExists, outdirExists, file, heap, df, ratios, missing,
                    exitCode, raised, stderr, prev >>

\* plot_margins(ratios, margins_png)
PlotMargins ==
    /\ pc = "margins"
    /\ outputs' = outputs \cup
          { [name |-> "margins_by_period.png",
             sheets |-> << Select(heap[ratios],
                                  << "period", "gross_margin", "operating_margin",
                                     "net_margin" >>) >>] }
    /\ calls' = Append(calls, "plot_margins")
    /\ pc' = "roa_roe"
    /\ UNCHANGED << inputExists, outdirExists, file, heap, df, ratios, missing,
                    exitCode, raised, stderr, prev >>

\* plot_roa_roe(ratios, roa_roe_png), the closing prints, and the end of main.
PlotRoaRoe ==
    /\ pc = "roa_roe"
    /\ outputs' = outputs \cup
          { [name |-> "roa_roe_by_period.png",
             sheets |-> << Select(heap[ratios], << "period", "roa", "roe" >>) >>] }
    /\ calls' = Append(calls, "plot_roa_roe")
    /\ exitCode' = 0
    /\ pc' = "exit"
    /\ UNCHANGED << inputExists, outdirExists, file, heap, df, ratios, missing,
                    raised, stderr, prev >>

Next ==
    \/ CheckInput
    \/ MakeDirs
    \/ ReadCsv
    \/ Validate
    \/ ComputeRatios
    \/ ExportExcel
    \/ PlotMargins
    \/ PlotRoaRoe

Spec == Init /\ [][Next]_vars

\* ------------------------------------- the validator, called on its own
InitValidate ==
    /\ pc = "ready"
    /\ inputExists = TRUE
    /\ outdirExists = FALSE
    /\ heap \in { << Table(h, << >>) >> : h \in ValidatorHeaders }
    /\ file = heap[1]
    /\ df = 1
    /\ Blank

ValidateCall ==
    /\ pc = "ready"
    /\ missing' = validate_columns(heap[df])
    /\ pc' = "returned"
    /\ UNCHANGED << inputExists, outdirExists, file, heap, df, ratios, exitCode,
                    raised, stderr, outputs, calls, prev >>

NextValidate == ValidateCall

SpecValidate == InitValidate /\ [][NextValidate]_vars

\* ---------------------------------------- the engine, called on its own
\* The tables given to the engine have passed the validator.
InitEngine ==
    /\ pc = "ready"
    /\ inputExists = TRUE
    /\ outdirExists = FALSE
    /\ heap \in { << t >> : t \in TablesOf(FullHeader, MaxRows)
                                   \cup TablesOf(WideHeader, MaxRows) }
    /\ file = heap[1]
    /\ df = 1
    /\ Blank

\* ratios = compute_ratios(df), by a caller that catches what it raises.
EngineCall ==
    /\ pc = "ready"
    /\ \E p \in SortOrders(heap[df]) :
       \E r \in { compute_ratios(heap, df, p) } :
          /\ raised' = r.raised
          /\ heap' = IF r.raised THEN << r.heap[df] >>
                     ELSE << r.heap[df], r.heap[r.ret] >>
          /\ ratios' = IF r.raised THEN 0 ELSE 2
    /\ pc' = "returned"
    /\ UNCHANGED << inputExists, outdirExists, file, df, missing, exitCode,
                    stderr, outputs, calls, prev >>

SwapRows(t, i, j) ==
    Table(t.cols, [t.rows EXCEPT ![i] = t.rows[j], ![j] = t.rows[i]])

\* The caller keeps the result of its first call and hands the engine the same
\* rows in another order: two rows of the table change places.
Reorder ==
    /\ pc = "returned"
    /\ ~prev.has
    /\ \E i, j \in 1..NRows(heap[df]) :
          /\ i < j
          /\ heap' = << SwapRows(heap[df], i, j) >>
    /\ prev' = [has |-> TRUE, raised |-> raised,
                rows |-> IF raised THEN << >> ELSE heap[ratios].rows]
    /\ ratios' = 0
    /\ raised' = FALSE
    /\ pc' = "ready"
    /\ UNCHANGED << inputExists, outdirExists, file, df, missing, exitCode,
                    stderr, outputs, calls >>

NextEngine ==
    \/ EngineCall
    \/ Reorder

SpecEngine == InitEngine /\ [][NextEngine]_vars

\* ---------------------------------------------------------------------
\* The properties.  What a table should yield is written here from the
\* formula table, on the integers of the cells, apart from the engine above.
\* ---------------------------------------------------------------------
Required == Range(REQUIRED_COLUMNS)

\* The columns the engine computes with: all but period and inventory.
UsedColumns == Required \ {"period", "inventory"}

RatioNames == Range(RatioSteps) \ {"gross_profit"}

CanonicalIndex(c) == CHOOSE i \in 1..Len(REQUIRED_COLUMNS) : REQUIRED_COLUMNS[i] = c

\* The required names a table lacks.
SchemaMissing(t) == Required \ Range(t.cols)

\* Some cell of a column the engine computes with is not a number.
HasText(t) ==
    \E i \in 1..NRows(t) : \E c \in UsedColumns : t.rows[i][c].k = "str"

\* n / (d + eps) for integers n and d.
OverEps(n, d) == IF n = 0 THEN Val("fin", 0, 1, 0) ELSE Val("fin", n, d, 1)

\* v is (cur - prior) / prior, with no epsilon: non-finite when prior is 0.
IsGrowth(v, cur, prior) ==
    IF prior = 0
    THEN v.k = (IF cur > 0 THEN "inf" ELSE IF cur < 0 THEN "ninf" ELSE "nan")
    ELSE v.k = "fin" /\ v.e = 0 /\ v.d # 0 /\ v.n * prior = (cur - prior) * v.d

\* The ten ratios of one input row r, by the formula table.
ExpectedRatios(r) ==
    [ gross_margin      |-> OverEps(r["revenue"].n - r["cogs"].n, r["revenue"].n),
      operating_margin  |-> OverEps(r["operating_income"].n, r["revenue"].n),
      net_margin        |-> OverEps(r["net_income"].n, r["revenue"].n),
      current_ratio     |-> OverEps(r["current_assets"].n, r["current_liabilities"].n),
      quick_ratio       |-> OverEps(r["cash"].n + r["marketable_securities"].n
                                       + r["accounts_receivable"].n,
                                    r["current_liabilities"].n),
      debt_to_equity    |-> OverEps(r["total_liabilities"].n, r["total_equity"].n),
      asset_turnover    |-> OverEps(r["revenue"].n, r["total_assets"].n),
      roa               |-> OverEps(r["net_income"].n, r["total_assets"].n),
      roe               |-> OverEps(r["net_income"].n, r["total_equity"].n),
      interest_coverage |-> OverEps(r["operating_income"].n, r["interest_expense"].n) ]

\* Output row o carries the period and the ten ratios of input row r.
RowOf(o, r) ==
    /\ o["period"] = r["period"]
    /\ \A c \in RatioNames : o[c] = ExpectedRatios(r)[c]

\* The two growth cells of output row i, when the rows stand in order p.
GrowthOf(o, t, p, i) ==
    IF i = 1
    THEN o["revenue_growth_yoy"] = NaN /\ o["net_income_growth_yoy"] = NaN
    ELSE /\ IsGrowth(o["revenue_growth_yoy"],
                     t.rows[p[i]]["revenue"].n, t.rows[p[i - 1]]["revenue"].n)
         /\ IsGrowth(o["net_income_growth_yoy"],
                     t.rows[p[i]]["net_income"].n, t.rows[p[i - 1]]["net_income"].n)

CountPeriod(t, v) == Cardinality({ i \in 1..NRows(t) : t.rows[i]["period"] = v })

PeriodsOf(t) == { t.rows[i]["period"] : i \in 1..NRows(t) }

DistinctPeriods(t) ==
    \A i, j \in 1..NRows(t) : i # j => t.rows[i]["period"] # t.rows[j]["period"]

Returned == pc = "returned" /\ ~raised

Input == heap[df]

Output == heap[ratios]

\* C1: validate_columns returns exactly the required names the table lacks,
\* each once, in the order of the required list, whatever other columns the
\* table has and in whatever order; the list is empty exactly when all
\* fifteen names are present.
C1_ValidatorExact ==
    pc = "returned" =>
        /\ \A c \in Required : (c \in Range(missing)) <=> ~HasColumn(Input, c)
        /\ Range(missing) \subseteq Required
        /\ \A i, j \in 1..Len(missing) :
              i < j => CanonicalIndex(missing[i]) < CanonicalIndex(missing[j])
        /\ (missing = << >>) <=> (Required \subseteq Range(Input.cols))

C1_Witness ==
    /\ pc = "returned"
    /\ missing = << "cogs", "inventory" >>
    /\ Input.cols[1] = ExtraColumn

Emitters == {"export_excel", "plot_margins", "plot_roa_roe"}

Before(a, b) ==
    \A j \in 1..Len(calls) :
        calls[j] = b => \E i \in 1..(j - 1) : calls[i] = a

CallOrder ==
    /\ Before("validate_columns", "compute_ratios")
    /\ "compute_ratios" \in Range(calls) => missing = << >>
    /\ \A e \in Emitters :
          /\ Before("compute_ratios", e)
          /\ e \in Range(calls) => ratios # 0
    /\ outputs # {} => "export_excel" \in Range(calls)

\* C3 as claimed: the engine runs only after the validator returned the empty
\* list and the emitters only after the engine returned; a run that ends with
\* exit code 1 or 2 never invoked the engine and wrote nothing, and one that
\* ends with 1 did not create the output directory.
C3_Pipeline_Original ==
    /\ CallOrder
    /\ (pc = "exit" /\ exitCode \in {1, 2}) =>
          ("compute_ratios" \notin Range(calls) /\ outputs = {})
    /\ (pc = "exit" /\ exitCode = 1) => "makedirs" \notin Range(calls)

\* C3, amended: the order of the calls is as claimed; a run that ends by
\* sys.exit(1) or sys.exit(2) never invoked the engine and wrote nothing, and
\* one that ends by sys.exit(1) did not create the output directory; a run
\* that ends with status 1 by the engine's uncaught exception did invoke the
\* engine, after the directory was made, and wrote nothing.
C3_Pipeline ==
    /\ CallOrder
    /\ (pc = "exit" /\ exitCode \in {1, 2} /\ ~raised) =>
          ("compute_ratios" \notin Range(calls) /\ outputs = {})
    /\ (pc = "exit" /\ exitCode = 1 /\ ~raised) =>
          ("makedirs" \notin Range(calls) /\ calls = << >>)
    /\ raised =>
          /\ pc = "exit" /\ exitCode = 1 /\ outputs = {}
          /\ calls = << "makedirs", "read_csv", "validate_columns", "compute_ratios" >>

C3_Witness ==
    /\ pc = "exit"
    /\ exitCode = 2
    /\ missing = << "cogs" >>
    /\ calls = << "makedirs", "read_csv", "validate_columns" >>
    /\ outdirExists

\* C9: compute_ratios leaves its input table as it was (columns, rows, their
\* order, cells), so the "Raw Data" sheet written afterwards is the table
\* that was read.
C9_InputUnchanged ==
    /\ (ratios # 0 \/ raised) => Input = file
    /\ \A o \in outputs :
          o.name = "financial_report.xlsx" => o.sheets[1] = file

C9_Witness ==
    /\ pc = "exit"
    /\ exitCode = 0
    /\ NRows(file) = 2
    /\ HasColumn(file, ExtraColumn)
    /\ file.rows[1][ExtraColumn] = Str
    /\ file.rows[1]["period"].n > file.rows[2]["period"].n
    /\ \E o \in outputs : o.name = "financial_report.xlsx"

\* C4: the table compute_ratios returns has as many rows as its input and the
\* same periods, each as many times (nothing dropped, duplicated or added),
\* also when periods repeat and when the input is empty.
C4_RowsPreserved ==
    Returned =>
        /\ NRows(Output) = NRows(Input)
        /\ \A v \in PeriodsOf(Input) \cup PeriodsOf(Output) :
              CountPeriod(Output, v) = CountPeriod(Input, v)

C4_Witness ==
    /\ Returned
    /\ NRows(Input) = 2
    /\ Input.rows[1]["period"] = Input.rows[2]["period"]
    /\ NRows(Output) = 2

NonDecreasing(t) ==
    \A i, j \in 1..NRows(t) :
        i < j => t.rows[i]["period"].n <= t.rows[j]["period"].n

\* The order a stable sort by period leaves the rows of t in.
StableOrder(t) == CHOOSE p \in SortOrders(t) : IsStable(t, p)

\* C5 as claimed: the returned rows are in non-decreasing order of period and
\* rows of equal period keep the relative order they had in the input.
C5_SortedStable_Original ==
    Returned =>
        /\ NonDecreasing(Output)
        /\ \A i \in 1..NRows(Output) :
              RowOf(Output.rows[i], Input.rows[StableOrder(Input)[i]])

\* C5, amended: the returned rows are in non-decreasing order of period; the
\* relative order of rows of equal period is whatever the sort leaves.
C5_Sorted ==
    Returned => NonDecreasing(Output)

C5_Witness ==
    /\ Returned
    /\ NRows(Input) = 2
    /\ Input.rows[1]["period"].n > Input.rows[2]["period"].n
    /\ Output.rows[1]["period"].n < Output.rows[2]["period"].n

C7_Growth ==
    Returned =>
        \E p \in SortOrders(Input) :
            \A i \in 1..NRows(Output) :
                /\ RowOf(Output.rows[i], Input.rows[p[i]])
                /\ GrowthOf(Output.rows[i], Input, p, i)

C7_Witness ==
    /\ Returned
    /\ NRows(Input) = 2
    /\ Input.rows[1]["period"].n > Input.rows[2]["period"].n
    /\ Input.rows[1]["revenue"] = Num(100)
    /\ Input.rows[2]["revenue"] = Num(150)
    /\ Output.rows[1]["revenue_growth_yoy"] = NaN
    /\ Output.rows[2]["revenue_growth_yoy"] = Val("fin", -1, 3, 0)

Finite(v) == v.k = "fin"

C10_RatiosPerRow ==
    Returned =>
        /\ Output.cols = ratio_cols
        /\ \E p \in Permutations(1..NRows(Input)) :
              \A i \in 1..NRows(Output) : RowOf(Output.rows[i], Input.rows[p[i]])

C10_Witness ==
    /\ Returned
    /\ NRows(Input) = 2
    /\ HasColumn(Input, ExtraColumn)
    /\ Input.rows[1]["period"].n > Input.rows[2]["period"].n
    /\ Input.rows[1]["inventory"] = Str
    /\ Input.rows[2]["revenue"] = Num(0)
    /\ Output.rows[2]["gross_margin"] = Val("fin", 70, 150, 1)
    /\ Output.rows[1]["gross_margin"] = Val("fin", -60, 0, 1)

====
